---- MODULE Spec2Model ----
(***************************************************************************)
(* A model of contentful-graphql-validator: GraphQLHelper and              *)
(* validateDocument (src/src/graphql-helper.ts).                           *)
(*                                                                         *)
(* A document is a record                                                  *)
(*   definitions : the sequence of top-level definitions, in source order  *)
(*   nodes       : the selections (Field, InlineFragment, FragmentSpread)  *)
(*                 of all definitions, listed in source (pre-order) order; *)
(*                 parent < 0 names definition -parent, parent > 0 names   *)
(*                 the selection whose selection set holds the node.       *)
(* A definition is identified by its index (object identity in the code), *)
(* a fragment is looked up by its name (name.value in the code).           *)
(***************************************************************************)
EXTENDS Integers, Sequences, FiniteSets, TLC

\* ---------------------------------------------------------------- bounds
MaxSize == 5

\* ---------------------------------------------------------------- values
Undefined == [type |-> "undefined", val |-> "undefined"]
Null == [type |-> "null", val |-> "null"]
Bool(b) == [type |-> "boolean", val |-> b]
Str(s) == [type |-> "string", val |-> s]
Num(s) == [type |-> "number", val |-> s]

\* JavaScript truthiness of the values above (`!x`, `x && ...`)
Truthy(v) ==
  \/ v.type = "boolean" /\ v.val = "true"
  \/ v.type = "string" /\ v.val # ""
  \/ v.type = "number" /\ v.val \notin {"0", "NaN"}

\* `a ?? b`
Coalesce(a, b) == IF a.type \in {"null", "undefined"} THEN b ELSE a

\* variables[name] of a plain object: undefined when the key is absent
GetVar(vars, name) == IF name \in DOMAIN vars THEN vars[name] ELSE Undefined

\* ---------------------------------------------------------------- AST
FragmentNames == <<"A", "B", "C", "D", "E", "F">>
FieldNames == <<"field1", "field2", "field3", "field4", "field5", "field6", "field7", "field8">>

NullValue == [kind |-> "NullValue", value |-> "null"]
BooleanValue(b) == [kind |-> "BooleanValue", value |-> b]
StringValue(s) == [kind |-> "StringValue", value |-> s]
IntValue(s) == [kind |-> "IntValue", value |-> s]
Variable(n) == [kind |-> "Variable", value |-> n]

Argument(n, v) == [name |-> n, value |-> v]

NamedType(n) == [kind |-> "NamedType", name |-> n]
ListType(t) == [kind |-> "ListType", type |-> t]
NonNullType(t) == [kind |-> "NonNullType", type |-> t]

VariableDefinition(n, t) == [name |-> n, type |-> t]

OperationDefinition(op, vds) ==
  [kind |-> "OperationDefinition", operation |-> op, name |-> "", variableDefinitions |-> vds]
FragmentDefinition(n) ==
  [kind |-> "FragmentDefinition", operation |-> "", name |-> n, variableDefinitions |-> <<>>]
TypeDefinition ==
  [kind |-> "ObjectTypeDefinition", operation |-> "", name |-> "MyType", variableDefinitions |-> <<>>]

Field(n, p, args) == [kind |-> "Field", name |-> n, parent |-> p, arguments |-> args]
InlineFragment(p) == [kind |-> "InlineFragment", name |-> "", parent |-> p, arguments |-> <<>>]
FragmentSpread(n, p) == [kind |-> "FragmentSpread", name |-> n, parent |-> p, arguments |-> <<>>]

\* ---------------------------------------------------------------- documents
\* The bounded input space: every document of at most `size` parts
\* (definitions + selections + arguments + variable definitions) that the
\* parser can produce: at least one definition, no empty selection set,
\* fragment names unique, every spread naming a fragment of the document.
\* A palette says which operations, variable definitions and argument lists
\* the documents are built from.

IsContainer(n) == n.kind \in {"Field", "InlineFragment"}

RECURSIVE DefOf(_, _)
DefOf(nodes, i) == IF nodes[i].parent < 0 THEN -nodes[i].parent ELSE DefOf(nodes, nodes[i].parent)

\* the selections on the path from the definition down to node i, i included
RECURSIVE PathTo(_, _)
PathTo(nodes, i) ==
  IF nodes[i].parent < 0 THEN {i} ELSE PathTo(nodes, nodes[i].parent) \cup {i}

HasSelections(d) == d.kind \in {"OperationDefinition", "FragmentDefinition"}

Children(nodes, p) == {i \in 1..Len(nodes) : nodes[i].parent = p}

RECURSIVE SumLen(_, _)
SumLen(seq, field) ==
  IF Len(seq) = 0 THEN 0
  ELSE (IF field = "arguments" THEN Len(seq[1].arguments) ELSE Len(seq[1].variableDefinitions))
       + SumLen(Tail(seq), field)

DefsSize(defs) == Len(defs) + SumLen(defs, "variableDefinitions")
NodesSize(nodes) == Len(nodes) + SumLen(nodes, "arguments")

\* selection sets that are still empty: each needs one more selection
Open(defs, nodes) ==
  Cardinality({d \in 1..Len(defs) : HasSelections(defs[d]) /\ Children(nodes, -d) = {}})
  + Cardinality({i \in 1..Len(nodes) : nodes[i].kind = "InlineFragment" /\ Children(nodes, i) = {}})

\* where the next selection in source order can be attached: below the last
\* selection or one of its ancestors, in its definition or in a later one
NextParents(defs, nodes) ==
  LET n == Len(nodes)
      last == IF n = 0 THEN 1 ELSE DefOf(nodes, n)
  IN  {-d : d \in {e \in last..Len(defs) : HasSelections(defs[e])}}
      \cup (IF n = 0 THEN {} ELSE {j \in PathTo(nodes, n) : IsContainer(nodes[j])})

FragmentNamesOf(defs) ==
  {defs[d].name : d \in {e \in 1..Len(defs) : defs[e].kind = "FragmentDefinition"}}

NextNodes(pal, defs, nodes) ==
  LET i == Len(nodes) + 1
  IN  UNION {
        {Field(FieldNames[i], p, a) : a \in pal.arguments}
        \cup {InlineFragment(p)}
        \cup {FragmentSpread(n, p) : n \in FragmentNamesOf(defs)}
        : p \in NextParents(defs, nodes)}

\* the lists of selections that can still be completed within the size
Fits(pal, defs, nodes) == DefsSize(defs) + NodesSize(nodes) + Open(defs, nodes) <= pal.size

RECURSIVE NodeLists(_, _, _)
NodeLists(pal, defs, k) ==
  IF k = 0 THEN {<<>>}
  ELSE LET S == NodeLists(pal, defs, k - 1)
       IN  S \cup {m \in UNION {{Append(ns, x) : x \in NextNodes(pal, defs, ns)}
                                : ns \in {m \in S : Len(m) = k - 1}}
                   : Fits(pal, defs, m)}

NextDefs(pal, defs) ==
  {OperationDefinition(op, v) : op \in pal.operations, v \in pal.variableDefinitions}
  \cup {FragmentDefinition(FragmentNames[Len(defs) + 1])}
  \cup (IF pal.typeDefinitions THEN {TypeDefinition} ELSE {})

RECURSIVE DefLists(_, _)
DefLists(pal, k) ==
  IF k = 0 THEN {<<>>}
  ELSE LET S == DefLists(pal, k - 1)
       IN  S \cup {m \in UNION {{Append(ds, x) : x \in NextDefs(pal, ds)}
                                : ds \in {m \in S : Len(m) = k - 1}}
                   : Fits(pal, m, <<>>)}

DocumentsOf(pal) ==
  UNION {{[definitions |-> ds, nodes |-> ns]
          : ns \in {m \in NodeLists(pal, ds, pal.size) : Open(ds, m) = 0}}
         : ds \in DefLists(pal, pal.size) \ {<<>>}}

ArgValues ==
  {NullValue, BooleanValue("true"), BooleanValue("false"), StringValue("string"),
   IntValue("0"), Variable("preview"), Variable("missing")}

\* the `variables` inputs: preview true, false, null or absent
VariablesInputs ==
  {[x \in {} |-> Undefined]}
  \cup {[x \in {"preview"} |-> v] : v \in {Bool("true"), Bool("false"), Null}}

\* the variable definitions of an operation: Boolean and String, bare and
\* non-null, and the lists [Boolean], [Boolean]! and [Boolean!]
VariableNames == {"preview", "locale"}
VariableTypes ==
  LET named == {NamedType("Boolean"), NamedType("String")}
      lists == {ListType(NamedType("Boolean")), ListType(NonNullType(NamedType("Boolean")))}
  IN  named \cup {NonNullType(t) : t \in named}
      \cup lists \cup {NonNullType(ListType(NamedType("Boolean")))}

\* the documents validateDocument is run on
Documents ==
  DocumentsOf([size |-> MaxSize,
               operations |-> {"query", "mutation", "subscription"},
               variableDefinitions |->
                 {<<>>} \cup {<<VariableDefinition(n, t)>> :
                               n \in VariableNames, t \in VariableTypes},
               typeDefinitions |-> TRUE,
               arguments |-> {<<>>} \cup {<<Argument("preview", v)>> : v \in ArgValues}])

\* the documents a GraphQLHelper is built on and called with directly
HelperDocuments ==
  DocumentsOf([size |-> MaxSize,
               operations |-> {"query"},
               variableDefinitions |-> {<<>>},
               typeDefinitions |-> FALSE,
               arguments |-> {<<>>} \cup {<<Argument("preview", v)>> : v \in ArgValues}])

\* ---------------------------------------------------------------- visit
\* The ancestors array graphql's visit() hands to a visitor of selection i:
\* [Document, definitions, definition, SelectionSet] for a selection of a
\* definition, and the parent's ancestors followed by
\* [selections, parent, SelectionSet] below another selection.  Arrays have
\* no `kind` property.
Ancestor(k, r) == [kind |-> k, ref |-> r]
ArrayAncestor == Ancestor("", 0)

RECURSIVE AncestorsOf(_, _)
AncestorsOf(doc, i) ==
  LET p == doc.nodes[i].parent
  IN  IF p < 0
      THEN <<Ancestor("Document", 0), ArrayAncestor,
             Ancestor(doc.definitions[-p].kind, -p), Ancestor("SelectionSet", 0)>>
      ELSE AncestorsOf(doc, p)
           \o <<ArrayAncestor, Ancestor(doc.nodes[p].kind, p), Ancestor("SelectionSet", 0)>>

\* ancestors[k] with a JavaScript (0-based) index
At(ancestors, k) ==
  IF k >= 0 /\ k < Len(ancestors) THEN ancestors[k + 1] ELSE Ancestor("undefined", 0)

\* `"kind" in d`
HasKind(d) == d.kind \notin {"", "undefined"}

\* ---------------------------------------------------------------- isInRoot
NotRoot == [isRoot |-> FALSE, container |-> 0]
Root(c) == [isRoot |-> TRUE, container |-> c.ref]

isInRoot(node, ancestors) ==
  IF node.kind = "Field"
  THEN LET container == At(ancestors, Len(ancestors) - 2)
       IN  IF container.kind = "OperationDefinition" THEN Root(container)
           ELSE IF container.kind = "FragmentDefinition" THEN Root(container)
           ELSE IF container.kind = "InlineFragment"
           THEN LET d == At(ancestors, Len(ancestors) - 7)
                    isRoot == HasKind(d) /\ d.kind = "Document"
                IN  IF ~isRoot THEN NotRoot
                    ELSE Root(At(ancestors, Len(ancestors) - 5))
           ELSE NotRoot
  ELSE LET d == At(ancestors, Len(ancestors) - 4)
           isRoot == HasKind(d) /\ d.kind = "Document"
       IN  IF ~isRoot THEN NotRoot
           ELSE Root(At(ancestors, Len(ancestors) - 2))

\* ---------------------------------------------------------------- caches
\* A Map is a function whose domain is the set of keys set so far.
MapHas(m, k) == k \in DOMAIN m
MapSet(m, k, v) == [x \in DOMAIN m \cup {k} |-> IF x = k THEN v ELSE m[x]]
EmptyMap == [x \in {} |-> 0]

\* the FragmentSpread visitor of getFragmentUsages, over the whole document
CollectUsages(doc, fragment) ==
  LET RECURSIVE Walk(_)
      Walk(i) ==
        IF i > Len(doc.nodes) THEN <<>>
        ELSE IF doc.nodes[i].kind = "FragmentSpread"
                /\ doc.nodes[i].name = doc.definitions[fragment].name
             THEN <<[node |-> i, ancestors |-> AncestorsOf(doc, i)]>> \o Walk(i + 1)
             ELSE Walk(i + 1)
  IN  Walk(1)

\* An array is an object: `ref` is its identity (what === compares), `items`
\* its content.  Identities are handed out in sequence, so the highest one in
\* the usages cache is the number of arrays `usages = []` has created, each
\* followed by one visit() of the document.
Array(ref, items) == [ref |-> ref, items |-> items]

Allocated(fu) ==
  LET refs == {fu[k].ref : k \in DOMAIN fu}
  IN  IF refs = {} THEN 0 ELSE CHOOSE m \in refs : \A r \in refs : r <= m

\* (variant: a cached array is returned only when it is not empty)
getFragmentUsages_NonEmptyOnly(doc, fu, fragment) ==
  IF MapHas(fu, fragment) /\ Len(fu[fragment].items) > 0
  THEN [usages |-> fu[fragment], fragmentUsages |-> fu]
  ELSE LET usages == Array(Allocated(fu) + 1, CollectUsages(doc, fragment))
       IN  [usages |-> usages, fragmentUsages |-> MapSet(fu, fragment, usages)]

\* [usages, the cache afterwards]
getFragmentUsages(doc, fu, fragment) ==
  IF MapHas(fu, fragment)
  THEN [usages |-> fu[fragment], fragmentUsages |-> fu]
  ELSE LET usages == Array(Allocated(fu) + 1, CollectUsages(doc, fragment))
       IN  [usages |-> usages, fragmentUsages |-> MapSet(fu, fragment, usages)]

\* ---------------------------------------------------------------- errors
\* A message is the sequence of the pieces the template literal concatenates.
NoError == [threw |-> FALSE, message |-> <<>>]
Error(m) == [threw |-> TRUE, message |-> m]

\* names.join(sep)
RECURSIVE Join(_, _)
Join(names, sep) ==
  IF Len(names) = 0 THEN <<>>
  ELSE IF Len(names) = 1 THEN <<names[1]>>
  ELSE <<names[1], sep>> \o Join(Tail(names), sep)

\* (variant: the element pushed last is not looked at)
Includes_ButLast(seq, x) == \E k \in 1..(Len(seq) - 1) : seq[k] = x

Includes(seq, x) == \E k \in 1..Len(seq) : seq[k] = x

CycleMessage(doc, visited, fragment) ==
  <<"A fragment cycle has been detected: ">>
  \o Join([k \in 1..Len(visited) |-> doc.definitions[visited[k]].name], "->")
  \o <<doc.definitions[fragment].name>>

\* ---------------------------------------------------------------- #isFragmentUsedInRoot
\* The private recursion.  `visited` is one array shared by the whole
\* resolution: it is pushed to and never popped.  The result carries what the
\* call leaves behind: the array, the usages cache and the deepest recursion
\* level reached.
Max(a, b) == IF a >= b THEN a ELSE b

Returned(v, visited, fu, depth) ==
  [threw |-> FALSE, value |-> v, message |-> <<>>, visited |-> visited,
   fragmentUsages |-> fu, depth |-> depth]
Thrown(m, visited, fu, depth) ==
  [threw |-> TRUE, value |-> FALSE, message |-> m, visited |-> visited,
   fragmentUsages |-> fu, depth |-> depth]

RECURSIVE IsFragmentUsedInRootRec(_, _, _, _, _)
RECURSIVE SomeUsage(_, _, _, _, _, _, _)
RECURSIVE AfterContainer(_, _, _, _, _, _)

IsFragmentUsedInRootRec(doc, fragment, visited, fu, level) ==
  IF Includes(visited, fragment)
  THEN Thrown(CycleMessage(doc, visited, fragment), visited, fu, level)
  ELSE LET got == getFragmentUsages(doc, fu, fragment)
       IN  SomeUsage(doc, got.usages.items, 1, Append(visited, fragment), got.fragmentUsages,
                     level, level)

\* usages.some(...) from usage k on; `deepest` is the deepest level seen so far
SomeUsage(doc, usages, k, visited, fu, level, deepest) ==
  IF k > Len(usages) THEN Returned(FALSE, visited, fu, deepest)
  ELSE LET result == isInRoot(doc.nodes[usages[k].node], usages[k].ancestors)
       IN  IF ~result.isRoot
           THEN SomeUsage(doc, usages, k + 1, visited, fu, level, deepest)
           ELSE IF doc.definitions[result.container].kind = "OperationDefinition"
           THEN Returned(TRUE, visited, fu, deepest)
           ELSE AfterContainer(doc, usages, k, level, deepest,
                  IsFragmentUsedInRootRec(doc, result.container, visited, fu, level + 1))

\* what the callback of usage k does with `inner`, the recursive call's outcome
AfterContainer(doc, usages, k, level, deepest, inner) ==
  IF inner.threw
  THEN Thrown(inner.message, inner.visited, inner.fragmentUsages, Max(deepest, inner.depth))
  ELSE IF inner.value
  THEN Returned(TRUE, inner.visited, inner.fragmentUsages, Max(deepest, inner.depth))
  ELSE SomeUsage(doc, usages, k + 1, inner.visited, inner.fragmentUsages, level,
                 Max(deepest, inner.depth))

\* ---------------------------------------------------------------- isFragmentUsedInRoot
\* [threw, value, message, and both caches afterwards]
Outcome(threw, v, m, fuir, fu, depth) ==
  [threw |-> threw, value |-> v, message |-> m, fragmentUsedInRoot |-> fuir,
   fragmentUsages |-> fu, depth |-> depth]

\* (variant: a resolution that raised is memoized as false)
isFragmentUsedInRoot_MemoOnThrow(doc, fuir, fu, fragment) ==
  IF MapHas(fuir, fragment)
  THEN Outcome(FALSE, fuir[fragment], <<>>, fuir, fu, 0)
  ELSE LET r == IsFragmentUsedInRootRec(doc, fragment, <<>>, fu, 1)
       IN  IF r.threw
           THEN Outcome(TRUE, FALSE, r.message, MapSet(fuir, fragment, FALSE), r.fragmentUsages,
                        r.depth)
           ELSE Outcome(FALSE, r.value, <<>>, MapSet(fuir, fragment, r.value), r.fragmentUsages, r.depth)

isFragmentUsedInRoot(doc, fuir, fu, fragment) ==
  IF MapHas(fuir, fragment)
  THEN Outcome(FALSE, fuir[fragment], <<>>, fuir, fu, 0)
  ELSE LET r == IsFragmentUsedInRootRec(doc, fragment, <<>>, fu, 1)
       IN  IF r.threw
           THEN Outcome(TRUE, FALSE, r.message, fuir, r.fragmentUsages, r.depth)
           ELSE Outcome(FALSE, r.value, <<>>, MapSet(fuir, fragment, r.value), r.fragmentUsages, r.depth)

\* ---------------------------------------------------------------- resolveArgumentValue
\* List and object literals hold no variables or nested values in this model.
resolveValueNode(value, vars) ==
  IF value.kind = "NullValue" THEN Null
  ELSE IF value.kind = "IntValue" THEN Num(value.value)
  ELSE IF value.kind = "FloatValue" THEN Num(value.value)
  ELSE IF value.kind = "ObjectValue" THEN [type |-> "object", val |-> value.value]
  ELSE IF value.kind = "ListValue" THEN [type |-> "object", val |-> value.value]
  ELSE IF value.kind = "Variable" THEN Coalesce(GetVar(vars, value.value), Null)
  ELSE IF value.kind = "BooleanValue" THEN Bool(value.value)
  ELSE Str(value.value)

resolveArgumentValue(argument, vars) == resolveValueNode(argument.value, vars)

\* ---------------------------------------------------------------- validateField
NonBooleanMessage(name) == <<"Field with non-boolean preview argument value: ", name>>
MismatchMessage(name, previewVar) ==
  <<"Preview mismatch for field '", name, "'. The variable is '", previewVar.val,
    "', but the argument has another value">>
RootFieldMessage(name) == <<"Root field does not have a preview argument set to true: ", name>>

\* (variant: the values are compared with !== instead of by their negations)
RECURSIVE ForEachArgument_StrictCompare(_, _, _, _)
ForEachArgument_StrictCompare(node, vars, k, previewArg) ==
  IF k > Len(node.arguments)
  THEN [threw |-> FALSE, message |-> <<>>, previewArg |-> previewArg]
  ELSE IF node.arguments[k].name = "preview"
  THEN LET arg == resolveArgumentValue(node.arguments[k], vars)
           previewVar == GetVar(vars, "preview")
       IN  IF arg.type # "null" /\ arg.type # "boolean"
           THEN [threw |-> TRUE, message |-> NonBooleanMessage(node.name), previewArg |-> arg]
           ELSE IF previewVar # arg
           THEN [threw |-> TRUE, message |-> MismatchMessage(node.name, previewVar), previewArg |-> arg]
           ELSE ForEachArgument_StrictCompare(node, vars, k + 1, arg)
  ELSE ForEachArgument_StrictCompare(node, vars, k + 1, previewArg)

\* (variant: the mismatch check comes before the type check)
RECURSIVE ForEachArgument_MismatchFirst(_, _, _, _)
ForEachArgument_MismatchFirst(node, vars, k, previewArg) ==
  IF k > Len(node.arguments)
  THEN [threw |-> FALSE, message |-> <<>>, previewArg |-> previewArg]
  ELSE IF node.arguments[k].name = "preview"
  THEN LET arg == resolveArgumentValue(node.arguments[k], vars)
           previewVar == GetVar(vars, "preview")
       IN  IF (~Truthy(previewVar)) # (~Truthy(arg))
           THEN [threw |-> TRUE, message |-> MismatchMessage(node.name, previewVar), previewArg |-> arg]
           ELSE IF arg.type # "null" /\ arg.type # "boolean"
           THEN [threw |-> TRUE, message |-> NonBooleanMessage(node.name), previewArg |-> arg]
           ELSE ForEachArgument_MismatchFirst(node, vars, k + 1, arg)
  ELSE ForEachArgument_MismatchFirst(node, vars, k + 1, previewArg)

\* node.arguments.forEach(...) from argument k on: [threw, message, previewArg]
RECURSIVE ForEachArgument(_, _, _, _)
ForEachArgument(node, vars, k, previewArg) ==
  IF k > Len(node.arguments)
  THEN [threw |-> FALSE, message |-> <<>>, previewArg |-> previewArg]
  ELSE IF node.arguments[k].name = "preview"
  THEN LET arg == resolveArgumentValue(node.arguments[k], vars)
           previewVar == GetVar(vars, "preview")
       IN  IF arg.type # "null" /\ arg.type # "boolean"
           THEN [threw |-> TRUE, message |-> NonBooleanMessage(node.name), previewArg |-> arg]
           ELSE IF (~Truthy(previewVar)) # (~Truthy(arg))
           THEN [threw |-> TRUE, message |-> MismatchMessage(node.name, previewVar), previewArg |-> arg]
           ELSE ForEachArgument(node, vars, k + 1, arg)
  ELSE ForEachArgument(node, vars, k + 1, previewArg)

validateField(doc, fuir, fu, i, ancestors, vars) ==
  LET node == doc.nodes[i]
      previewVar == GetVar(vars, "preview")
      args == ForEachArgument(node, vars, 1, Undefined)
  IN  IF args.threw THEN Outcome(TRUE, FALSE, args.message, fuir, fu, 0)
      ELSE IF Truthy(previewVar) /\ ~Truthy(args.previewArg)
      THEN LET result == isInRoot(node, ancestors)
           IN  IF ~result.isRoot THEN Outcome(FALSE, FALSE, <<>>, fuir, fu, 0)
               ELSE IF doc.definitions[result.container].kind = "OperationDefinition"
               THEN Outcome(TRUE, FALSE, RootFieldMessage(node.name), fuir, fu, 0)
               ELSE LET used == isFragmentUsedInRoot(doc, fuir, fu, result.container)
                    IN  IF used.threw THEN used
                        ELSE IF used.value
                        THEN Outcome(TRUE, FALSE, RootFieldMessage(node.name),
                                     used.fragmentUsedInRoot, used.fragmentUsages, used.depth)
                        ELSE Outcome(FALSE, FALSE, <<>>,
                                     used.fragmentUsedInRoot, used.fragmentUsages, used.depth)
      ELSE Outcome(FALSE, FALSE, <<>>, fuir, fu, 0)

\* ---------------------------------------------------------------- validateOperation
validateOperation(node) ==
  IF node.operation # "query" THEN Error(<<"The operation must be a query">>) ELSE NoError

\* ---------------------------------------------------------------- validateVariableDefinition
\* (variant: the non-null wrapper is not unwrapped)
validateVariableDefinition_NoUnwrap(node) ==
  IF node.name = "preview"
  THEN LET type == node.type
       IN  IF type.kind # "NamedType" \/ type.name # "Boolean"
           THEN Error(<<"The preview variable must be of type Boolean">>)
           ELSE NoError
  ELSE NoError

validateVariableDefinition(node) ==
  IF node.name = "preview"
  THEN LET type == IF node.type.kind = "NonNullType" THEN node.type.type ELSE node.type
       IN  IF type.kind = "ListType" \/ type.name # "Boolean"
           THEN Error(<<"The preview variable must be of type Boolean">>)
           ELSE NoError
  ELSE NoError

\* ---------------------------------------------------------------- state
VARIABLES
  document,            \* the parsed document (input)
  variables,           \* the variables (input of validateDocument / validateField)
  fragmentUsedInRoot,  \* GraphQLHelper.#fragmentUsedInRoot
  fragmentUsages,      \* GraphQLHelper.#fragmentUsages
  operationCount,      \* validateDocument's counter
  cursor,              \* how many visitor calls of validateDocument's visit() were made
  status,              \* "running", "returned" or "threw"
  error,               \* the message of the error thrown, <<>> if none
  last                 \* the last call made on the helper and what it gave
                       \* (visits: how many visit() traversals the call made)

vars ==
  <<document, variables, fragmentUsedInRoot, fragmentUsages, operationCount, cursor,
    status, error, last>>

NoCall == [method |-> "none", arg |-> 0, threw |-> FALSE, message |-> <<>>,
           value |-> FALSE, container |-> 0, usages |-> Array(0, <<>>), depth |-> 0,
           visits |-> 0]

\* ---------------------------------------------------------------- validateDocument
\* The visitor calls visit(document, {OperationDefinition, VariableDefinition,
\* Field}) makes, in order: definitions in source order; of an operation the
\* node itself, then its variable definitions, then its fields in pre-order;
\* of a fragment definition its fields.
FieldsOf(doc, d) ==
  LET RECURSIVE Walk(_)
      Walk(i) ==
        IF i > Len(doc.nodes) THEN <<>>
        ELSE IF doc.nodes[i].kind = "Field" /\ DefOf(doc.nodes, i) = d
             THEN <<[kind |-> "Field", def |-> d, index |-> i]>> \o Walk(i + 1)
             ELSE Walk(i + 1)
  IN  Walk(1)

Visits(doc) ==
  LET RECURSIVE Walk(_)
      Walk(d) ==
        IF d > Len(doc.definitions) THEN <<>>
        ELSE (IF doc.definitions[d].kind = "OperationDefinition"
              THEN <<[kind |-> "OperationDefinition", def |-> d, index |-> 0]>>
                   \o [k \in 1..Len(doc.definitions[d].variableDefinitions) |->
                         [kind |-> "VariableDefinition", def |-> d, index |-> k]]
              ELSE <<>>)
             \o FieldsOf(doc, d) \o Walk(d + 1)
  IN  Walk(1)

Init ==
  /\ document \in Documents
  /\ variables \in VariablesInputs
  /\ fragmentUsedInRoot = EmptyMap
  /\ fragmentUsages = EmptyMap
  /\ operationCount = 0
  /\ cursor = 0
  /\ status = "running"
  /\ error = <<>>
  /\ last = NoCall

\* (variant: the traversal is not aborted by a raised error)
Visiting_NotAborted(kind) ==
  /\ cursor < Len(Visits(document))
  /\ Visits(document)[cursor + 1].kind = kind

Visiting(kind) ==
  /\ status = "running"
  /\ cursor < Len(Visits(document))
  /\ Visits(document)[cursor + 1].kind = kind

Throw(m) == status' = "threw" /\ error' = m

\* (variant: the operation is counted before it is validated)
VisitOperationDefinition_CountFirst ==
  /\ Visiting("OperationDefinition")
  /\ LET node == document.definitions[Visits(document)[cursor + 1].def]
         r == validateOperation(node)
     IN  IF r.threw
         THEN Throw(r.message) /\ operationCount' = operationCount + 1
         ELSE operationCount' = operationCount + 1 /\ UNCHANGED <<status, error>>
  /\ cursor' = cursor + 1
  /\ UNCHANGED <<document, variables, fragmentUsedInRoot, fragmentUsages, last>>

\* OperationDefinition(node) { helper.validateOperation(node); ++operationCount; }
VisitOperationDefinition ==
  /\ Visiting("OperationDefinition")
  /\ LET node == document.definitions[Visits(document)[cursor + 1].def]
         r == validateOperation(node)
     IN  IF r.threw
         THEN Throw(r.message) /\ UNCHANGED operationCount
         ELSE operationCount' = operationCount + 1 /\ UNCHANGED <<status, error>>
  /\ cursor' = cursor + 1
  /\ UNCHANGED <<document, variables, fragmentUsedInRoot, fragmentUsages, last>>

\* VariableDefinition(node) { helper.validateVariableDefinition(node); }
VisitVariableDefinition ==
  /\ Visiting("VariableDefinition")
  /\ LET v == Visits(document)[cursor + 1]
         r == validateVariableDefinition(document.definitions[v.def].variableDefinitions[v.index])
     IN  IF r.threw THEN Throw(r.message) ELSE UNCHANGED <<status, error>>
  /\ cursor' = cursor + 1
  /\ UNCHANGED <<document, variables, fragmentUsedInRoot, fragmentUsages, operationCount, last>>

\* Field(node, key, parent, path, ancestors) { helper.validateField(node, ancestors, variables); }
VisitField ==
  /\ Visiting("Field")
  /\ LET i == Visits(document)[cursor + 1].index
         r == validateField(document, fragmentUsedInRoot, fragmentUsages, i,
                            AncestorsOf(document, i), variables)
     IN  /\ IF r.threw THEN Throw(r.message) ELSE UNCHANGED <<status, error>>
         /\ fragmentUsedInRoot' = r.fragmentUsedInRoot
         /\ fragmentUsages' = r.fragmentUsages
  /\ cursor' = cursor + 1
  /\ UNCHANGED <<document, variables, operationCount, last>>

OperationCountMessage == <<"The document must have exactly 1 operation.">>

\* (variant: the count check is `operationCount < 1`)
Return_CountBelowOne ==
  /\ status = "running"
  /\ cursor = Len(Visits(document))
  /\ IF operationCount < 1
     THEN Throw(OperationCountMessage)
     ELSE status' = "returned" /\ UNCHANGED error
  /\ UNCHANGED <<document, variables, fragmentUsedInRoot, fragmentUsages, operationCount,
                 cursor, last>>

\* after visit(): if (operationCount !== 1) throw ...
Return ==
  /\ status = "running"
  /\ cursor = Len(Visits(document))
  /\ IF operationCount # 1
     THEN Throw(OperationCountMessage)
     ELSE status' = "returned" /\ UNCHANGED error
  /\ UNCHANGED <<document, variables, fragmentUsedInRoot, fragmentUsages, operationCount,
                 cursor, last>>

Next ==
  \/ VisitOperationDefinition
  \/ VisitVariableDefinition
  \/ VisitField
  \/ Return

Spec == Init /\ [][Next]_vars

\* ---------------------------------------------------------------- GraphQLHelper, called directly
\* One helper on one document, its public methods called in any order with
\* the nodes and ancestors a visit() of the document hands out.
\* `\E r \in {call}` names the outcome of the one call the action makes.
HelperInit ==
  /\ document \in HelperDocuments
  /\ variables = [x \in {} |-> Undefined]
  /\ fragmentUsedInRoot = EmptyMap
  /\ fragmentUsages = EmptyMap
  /\ operationCount = 0
  /\ cursor = 0
  /\ status = "running"
  /\ error = <<>>
  /\ last = NoCall

NodesOfKind(doc, kinds) == {i \in 1..Len(doc.nodes) : doc.nodes[i].kind \in kinds}
FragmentsOf(doc) ==
  {d \in 1..Len(doc.definitions) : doc.definitions[d].kind = "FragmentDefinition"}

CallIsInRoot ==
  \E i \in NodesOfKind(document, {"Field", "FragmentSpread"}) :
    \E r \in {isInRoot(document.nodes[i], AncestorsOf(document, i))} :
        /\ last' = [NoCall EXCEPT !.method = "isInRoot", !.arg = i, !.value = r.isRoot,
                                  !.container = r.container]
        /\ UNCHANGED <<document, variables, fragmentUsedInRoot, fragmentUsages,
                       operationCount, cursor, status, error>>

CallGetFragmentUsages ==
  \E f \in FragmentsOf(document) :
    \E r \in {getFragmentUsages(document, fragmentUsages, f)} :
        /\ last' = [NoCall EXCEPT !.method = "getFragmentUsages", !.arg = f, !.usages = r.usages,
                                  !.visits = Allocated(r.fragmentUsages) - Allocated(fragmentUsages)]
        /\ fragmentUsages' = r.fragmentUsages
        /\ UNCHANGED <<document, variables, fragmentUsedInRoot, operationCount, cursor,
                       status, error>>

CallIsFragmentUsedInRoot ==
  \E f \in FragmentsOf(document) :
    \E r \in {isFragmentUsedInRoot(document, fragmentUsedInRoot, fragmentUsages, f)} :
        /\ last' = [NoCall EXCEPT !.method = "isFragmentUsedInRoot", !.arg = f,
                                  !.threw = r.threw, !.message = r.message,
                                  !.value = r.value, !.depth = r.depth,
                                  !.visits = Allocated(r.fragmentUsages) - Allocated(fragmentUsages)]
        /\ fragmentUsedInRoot' = r.fragmentUsedInRoot
        /\ fragmentUsages' = r.fragmentUsages
        /\ UNCHANGED <<document, variables, operationCount, cursor, status, error>>

CallValidateField ==
  \E i \in NodesOfKind(document, {"Field"}), v \in VariablesInputs :
    \E r \in {validateField(document, fragmentUsedInRoot, fragmentUsages, i,
                             AncestorsOf(document, i), v)} :
        /\ last' = [NoCall EXCEPT !.method = "validateField", !.arg = i,
                                  !.threw = r.threw, !.message = r.message, !.depth = r.depth,
                                  !.visits = Allocated(r.fragmentUsages) - Allocated(fragmentUsages)]
        /\ variables' = v
        /\ fragmentUsedInRoot' = r.fragmentUsedInRoot
        /\ fragmentUsages' = r.fragmentUsages
        /\ UNCHANGED <<document, operationCount, cursor, status, error>>

HelperNext ==
  \/ CallIsInRoot
  \/ CallGetFragmentUsages
  \/ CallIsFragmentUsedInRoot
  \/ CallValidateField

HelperSpec == HelperInit /\ [][HelperNext]_vars

\* ================================================================ properties
\* What the documentation calls "at root", stated on the document itself:
\* no field lies between the selection and its definition (inline fragments
\* are transparent), and for the operation's root, fragments are followed
\* through the spreads that are themselves at root.
FieldBetween(doc, i) == \E j \in PathTo(doc.nodes, i) \ {i} : doc.nodes[j].kind = "Field"
AtRootOfDefinition(doc, i) == ~FieldBetween(doc, i)

IsOperation(doc, d) == doc.definitions[d].kind = "OperationDefinition"

\* the fragments spread at the root of an operation or of a fragment of S
SpreadAtRootOf(doc, S) ==
  {f \in FragmentsOf(doc) :
     \E i \in NodesOfKind(doc, {"FragmentSpread"}) :
        /\ doc.nodes[i].name = doc.definitions[f].name
        /\ AtRootOfDefinition(doc, i)
        /\ (IsOperation(doc, DefOf(doc.nodes, i)) \/ DefOf(doc.nodes, i) \in S)}

RECURSIVE RootFragmentsFrom(_, _)
RootFragmentsFrom(doc, S) ==
  IF SpreadAtRootOf(doc, S) \subseteq S THEN S
  ELSE RootFragmentsFrom(doc, S \cup SpreadAtRootOf(doc, S))

RootFragments(doc) == RootFragmentsFrom(doc, {})

AtOperationRoot(doc, i) ==
  /\ AtRootOfDefinition(doc, i)
  /\ (IsOperation(doc, DefOf(doc.nodes, i)) \/ DefOf(doc.nodes, i) \in RootFragments(doc))

PreviewVar == GetVar(variables, "preview")

HasPreviewTrue(node, vs) ==
  \E k \in 1..Len(node.arguments) :
     /\ node.arguments[k].name = "preview"
     /\ resolveArgumentValue(node.arguments[k], vs) = Bool("true")

\* C1: when validateDocument returns normally and variables.preview is truthy,
\* every field semantically at the root of the operation (inline fragments
\* and root-level fragment spreads transparent) has an explicit preview
\* argument resolving to true.
C1_RootFieldsHavePreviewTrue ==
  (status = "returned" /\ Truthy(PreviewVar)) =>
    \A i \in NodesOfKind(document, {"Field"}) :
       AtOperationRoot(document, i) => HasPreviewTrue(document.nodes[i], variables)

\* C4: isInRoot of a field says isRoot exactly when no field lies between it
\* and its operation or fragment definition (inline fragments transparent at
\* every depth), and then the container is that definition.
C4_FieldIsInRoot ==
  (last.method = "isInRoot" /\ document.nodes[last.arg].kind = "Field") =>
    /\ last.value = AtRootOfDefinition(document, last.arg)
    /\ last.value => last.container = DefOf(document.nodes, last.arg)

\* C5: isInRoot of a fragment spread says isRoot exactly when no field lies
\* between it and its operation or fragment definition (inline fragments
\* transparent), and then the container is that definition.
C5_SpreadIsInRoot ==
  (last.method = "isInRoot" /\ document.nodes[last.arg].kind = "FragmentSpread") =>
    /\ last.value = AtRootOfDefinition(document, last.arg)
    /\ last.value => last.container = DefOf(document.nodes, last.arg)

\* The checks of validateDocument, stated on the document: one per operation
\* definition, variable definition and field, ordered by declaration (by
\* definition, then the operation before its variable definitions before its
\* fields, then by position).
Checks(doc) ==
  {[kind |-> "OperationDefinition", def |-> d, index |-> 0] :
     d \in {e \in 1..Len(doc.definitions) : IsOperation(doc, e)}}
  \cup UNION {{[kind |-> "VariableDefinition", def |-> d, index |-> k] :
                 k \in 1..Len(doc.definitions[d].variableDefinitions)}
              : d \in 1..Len(doc.definitions)}
  \cup {[kind |-> "Field", def |-> DefOf(doc.nodes, i), index |-> i] :
          i \in NodesOfKind(doc, {"Field"})}

Rank(c) == CASE c.kind = "OperationDefinition" -> 0
             [] c.kind = "VariableDefinition" -> 1
             [] OTHER -> 2

Before(a, b) ==
  \/ a.def < b.def
  \/ a.def = b.def /\ Rank(a) < Rank(b)
  \/ a.def = b.def /\ Rank(a) = Rank(b) /\ a.index < b.index

\* the message check c raises on its own (on a fresh helper), <<>> if none
Raises(doc, vs, c) ==
  CASE c.kind = "OperationDefinition" -> validateOperation(doc.definitions[c.def]).message
    [] c.kind = "VariableDefinition" ->
         validateVariableDefinition(doc.definitions[c.def].variableDefinitions[c.index]).message
    [] OTHER ->
         validateField(doc, EmptyMap, EmptyMap, c.index, AncestorsOf(doc, c.index), vs).message

Violations(doc, vs) == {c \in Checks(doc) : Raises(doc, vs, c) # <<>>}

FirstViolation(doc, vs) ==
  CHOOSE v \in Violations(doc, vs) : \A w \in Violations(doc, vs) \ {v} : Before(v, w)

NumOperations(doc) == Cardinality({d \in 1..Len(doc.definitions) : IsOperation(doc, d)})

\* C2 (as claimed): whenever the number of operation definitions is not 1,
\* validateDocument raises the operation-count error, whatever else the
\* document contains.
C2_CountErrorRegardless ==
  (status # "running" /\ NumOperations(document) # 1) =>
    (status = "threw" /\ error = OperationCountMessage)

\* C2 (amended): whenever the number of operation definitions is not 1,
\* validateDocument does not return normally, and the error is the
\* operation-count error when no other check of the traversal raises.
C2_CountErrorUnlessEarlierError ==
  (status # "running" /\ NumOperations(document) # 1) =>
    /\ status = "threw"
    /\ Violations(document, variables) = {} => error = OperationCountMessage

C2_Witness ==
  /\ status = "threw"
  /\ error = OperationCountMessage
  /\ NumOperations(document) = 2
  /\ NodesOfKind(document, {"Field"}) # {}

\* C3: validateDocument raises the error of the first violation in declaration
\* order, makes no visitor call after it, and raises the operation-count error
\* only after a traversal that completed without any other violation.
C3_FirstViolationReported ==
  status # "running" =>
    IF Violations(document, variables) = {}
    THEN /\ cursor = Cardinality(Checks(document))
         /\ status = "threw" => error = OperationCountMessage
    ELSE LET first == FirstViolation(document, variables)
         IN  /\ status = "threw"
             /\ error = Raises(document, variables, first)
             /\ cursor = 1 + Cardinality({c \in Checks(document) : Before(c, first)})

C3_Witness ==
  /\ status = "threw"
  /\ Cardinality(Violations(document, variables)) >= 2
  /\ \E c \in Violations(document, variables) :
        Raises(document, variables, c) # error /\ Before(FirstViolation(document, variables), c)

\* The field of the last validateField call and its preview arguments.
LastField == document.nodes[last.arg]
PreviewArguments(node) ==
  {k \in 1..Len(node.arguments) : node.arguments[k].name = "preview"}

\* C6: with a truthy preview variable and no preview argument, validateField
\* raises the root-field error exactly for a field at the root of an
\* operation, or at the root of a fragment definition that
\* isFragmentUsedInRoot reports as used at an operation's root; with a falsy
\* preview variable it never raises it.
C6_RootFieldErrorIffAtRoot ==
  last.method = "validateField" =>
    LET raised == last.threw /\ last.message = RootFieldMessage(LastField.name)
        def == DefOf(document.nodes, last.arg)
        used == isFragmentUsedInRoot(document, fragmentUsedInRoot, fragmentUsages, def)
    IN  /\ ~Truthy(PreviewVar) => ~raised
        /\ (Truthy(PreviewVar) /\ PreviewArguments(LastField) = {}) =>
             (raised <=> /\ AtRootOfDefinition(document, last.arg)
                         /\ (IsOperation(document, def) \/ (~used.threw /\ used.value)))

\* What an argument value is, read off the document and the variables.
ValueIsTrue(value, vs) ==
  \/ value = BooleanValue("true")
  \/ value.kind = "Variable" /\ GetVar(vs, value.value) = Bool("true")
ValueIsNullOrBoolean(value, vs) ==
  \/ value.kind \in {"NullValue", "BooleanValue"}
  \/ value.kind = "Variable" /\ GetVar(vs, value.value).type \in {"undefined", "null", "boolean"}
VarIsTrue(vs) == "preview" \in DOMAIN vs /\ vs["preview"] = Bool("true")

\* C7: for a field whose preview argument is null or a boolean, validateField
\* raises the preview-mismatch error exactly when the argument's boolean
\* coercion differs from that of variables.preview (null, false, undefined
\* and an absent variable all count as false).
C7_MismatchIffCoercionsDiffer ==
  last.method = "validateField" =>
    \A k \in PreviewArguments(LastField) :
       ValueIsNullOrBoolean(LastField.arguments[k].value, variables) =>
         ((last.threw /\ last.message = MismatchMessage(LastField.name, PreviewVar))
            <=> (ValueIsTrue(LastField.arguments[k].value, variables) # VarIsTrue(variables)))

\* preview: null (or a missing variable) accepted without a preview variable,
\* and rejected with preview = true
C7_Witness ==
  /\ last.method = "validateField"
  /\ \E k \in PreviewArguments(LastField) :
        LastField.arguments[k].value \in {NullValue, Variable("missing")}
  /\ \/ ~last.threw /\ "preview" \notin DOMAIN variables
     \/ last.threw /\ VarIsTrue(variables)

\* C8: a preview argument that resolves to neither null nor a boolean makes
\* validateField raise the non-boolean error, whatever variables.preview is
\* and whichever other check would also apply to the field.
C8_NonBooleanAlwaysRaised ==
  last.method = "validateField" =>
    \A k \in PreviewArguments(LastField) :
       ~ValueIsNullOrBoolean(LastField.arguments[k].value, variables) =>
         (last.threw /\ last.message = NonBooleanMessage(LastField.name))

\* a falsy non-boolean argument on an operation's root field with
\* preview = true: the mismatch and the root-field check would both apply too
C8_Witness ==
  /\ last.method = "validateField"
  /\ last.threw
  /\ \E k \in PreviewArguments(LastField) : LastField.arguments[k].value = IntValue("0")
  /\ VarIsTrue(variables)
  /\ LastField.parent < 0
  /\ IsOperation(document, DefOf(document.nodes, last.arg))

\* f is spread at the root of fragment definition g
SpreadAtRootOfFragment(doc, f, g) ==
  \E i \in NodesOfKind(doc, {"FragmentSpread"}) :
     /\ doc.nodes[i].name = doc.definitions[f].name
     /\ AtRootOfDefinition(doc, i)
     /\ DefOf(doc.nodes, i) = g

\* the fragments reached from the fragments of S by "is spread at the root of"
RECURSIVE ContainersFrom(_, _)
ContainersFrom(doc, S) ==
  LET T == S \cup {g \in FragmentsOf(doc) : \E f \in S : SpreadAtRootOfFragment(doc, f, g)}
  IN  IF T = S THEN S ELSE ContainersFrom(doc, T)

OnRootSpreadCycle(doc, f) ==
  \E g \in FragmentsOf(doc) :
     SpreadAtRootOfFragment(doc, f, g) /\ f \in ContainersFrom(doc, {g})

CyclePrefix == "A fragment cycle has been detected: "

\* C9: isFragmentUsedInRoot of a fragment that lies on a cycle of fragments
\* spread at each other's root raises the fragment-cycle error, on every call.
C9_CycleAlwaysRaised ==
  (last.method = "isFragmentUsedInRoot" /\ OnRootSpreadCycle(document, last.arg)) =>
    (last.threw /\ last.message[1] = CyclePrefix)

\* C10: the cycle message is the prefix followed by fragment names joined by
\* "->": the path from the queried fragment in visited order, then the
\* repeated fragment's name.
C10_CycleMessageChain ==
  (last.method = "isFragmentUsedInRoot" /\ last.threw) =>
    LET chain == Tail(last.message)
        names == {document.definitions[f].name : f \in FragmentsOf(document)}
    IN  /\ last.message[1] = CyclePrefix
        /\ Len(chain) % 2 = 1 /\ Len(chain) >= 3
        /\ \A k \in 1..Len(chain) : IF k % 2 = 1 THEN chain[k] \in names ELSE chain[k] = "->"
        /\ chain[1] = document.definitions[last.arg].name
        /\ \E k \in 1..(Len(chain) - 1) : chain[k] = chain[Len(chain)]

\* the fragment spreads naming fragment f, anywhere in the document
SpreadsNaming(doc, f) ==
  {i \in NodesOfKind(doc, {"FragmentSpread"}) : doc.nodes[i].name = doc.definitions[f].name}

\* an array of usages holds one record per spread naming f, each with the
\* ancestor chain of its own spread
UsagesComplete(doc, f, usages) ==
  /\ Len(usages.items) = Cardinality(SpreadsNaming(doc, f))
  /\ {usages.items[k].node : k \in 1..Len(usages.items)} = SpreadsNaming(doc, f)
  /\ \A k \in 1..Len(usages.items) :
        usages.items[k].ancestors = AncestorsOf(doc, usages.items[k].node)

\* a step keeps every cached array, and a getFragmentUsages call for a cached
\* fragment returns that very array
UsagesKept ==
  \A g \in DOMAIN fragmentUsages :
     /\ g \in DOMAIN fragmentUsages'
     /\ fragmentUsages'[g] = fragmentUsages[g]
     /\ (last'.method = "getFragmentUsages" /\ last'.arg = g) =>
          last'.usages.ref = fragmentUsages[g].ref

\* C11: getFragmentUsages(F) returns the same array (by reference) on every
\* call, also when F has no usage; the array holds exactly one record per
\* spread naming F anywhere in the document, each with the ancestor chain of
\* its spread; and caching one fragment's usages leaves every other
\* fragment's result as it is.
C11_UsagesCachedByReference ==
  /\ [](/\ \A g \in DOMAIN fragmentUsages : UsagesComplete(document, g, fragmentUsages[g])
        /\ \A g, h \in DOMAIN fragmentUsages :
              fragmentUsages[g].ref = fragmentUsages[h].ref => g = h
        /\ last.method = "getFragmentUsages" =>
              /\ last.usages = fragmentUsages[last.arg]
              /\ UsagesComplete(document, last.arg, last.usages))
  /\ [][UsagesKept]_vars

\* a fragment without usages answered from the cache, while another fragment
\* with two usages is cached as well
C11_Witness ==
  /\ last.method = "getFragmentUsages"
  /\ last.visits = 0
  /\ last.usages.items = <<>>
  /\ \E g \in DOMAIN fragmentUsages : g # last.arg /\ Len(fragmentUsages[g].items) >= 2

\* what isFragmentUsedInRoot(f) gives on a helper just built on the document
FreshOutcome(doc, f) == isFragmentUsedInRoot(doc, EmptyMap, EmptyMap, f)

SameOutcome(a, b) == a.threw = b.threw /\ a.value = b.value /\ a.message = b.message

\* a step keeps every stored boolean, and an isFragmentUsedInRoot call for a
\* stored fragment returns it without any traversal
MemoKept ==
  \A f \in DOMAIN fragmentUsedInRoot :
     /\ f \in DOMAIN fragmentUsedInRoot'
     /\ fragmentUsedInRoot'[f] = fragmentUsedInRoot[f]
     /\ (last'.method = "isFragmentUsedInRoot" /\ last'.arg = f) =>
          (~last'.threw /\ last'.value = fragmentUsedInRoot[f] /\ last'.visits = 0)

\* C12: after any sequence of isFragmentUsedInRoot, getFragmentUsages and
\* validateField calls on one helper, isFragmentUsedInRoot(F) has the outcome
\* a fresh helper on the same document gives; a stored boolean is never
\* changed, and a call for a stored fragment returns it without traversing
\* the document.
C12_MemoTransparent ==
  /\ [](/\ \A f \in FragmentsOf(document) :
              SameOutcome(isFragmentUsedInRoot(document, fragmentUsedInRoot, fragmentUsages, f),
                          FreshOutcome(document, f))
        /\ \A f \in DOMAIN fragmentUsedInRoot :
              ~FreshOutcome(document, f).threw
        /\ last.method = "isFragmentUsedInRoot" =>
              SameOutcome(last, FreshOutcome(document, last.arg)))
  /\ [][MemoKept]_vars

\* a call answered from the memo (no resolution started) with the value true
C12_Witness ==
  /\ last.method = "isFragmentUsedInRoot"
  /\ last.depth = 0
  /\ last.value
  /\ last.arg \in DOMAIN fragmentUsedInRoot
  /\ DOMAIN fragmentUsages # {}

\* The visitor call validateDocument made last, and its variable definition.
LastVisit == Visits(document)[cursor]
LastVisitIs(kind) == cursor >= 1 /\ LastVisit.kind = kind
LastVariableDefinition == document.definitions[LastVisit.def].variableDefinitions[LastVisit.index]

PreviewTypeMessage == <<"The preview variable must be of type Boolean">>

\* the declared types that pass for $preview: Boolean and Boolean!
AcceptedPreviewTypes == {NamedType("Boolean"), NonNullType(NamedType("Boolean"))}

\* C13: validateVariableDefinition raises the preview-type error exactly for
\* a variable named preview whose declared type is not Boolean or Boolean!
\* ([Boolean], [Boolean]!, [Boolean!] and other named types fail); a variable
\* of any other name is never rejected.
C13_PreviewTypeErrorIff ==
  LastVisitIs("VariableDefinition") =>
    ((status = "threw" /\ error = PreviewTypeMessage)
       <=> (/\ LastVariableDefinition.name = "preview"
            /\ LastVariableDefinition.type \notin AcceptedPreviewTypes))

\* $preview: [Boolean]! is rejected (the list shows after the unwrapping)
C13_Witness ==
  /\ LastVisitIs("VariableDefinition")
  /\ status = "threw"
  /\ error = PreviewTypeMessage
  /\ LastVariableDefinition = VariableDefinition("preview", NonNullType(ListType(NamedType("Boolean"))))

OperationKindMessage == <<"The operation must be a query">>

\* the operations visited so far whose kind is query
QueriesVisited ==
  {k \in 1..cursor :
     /\ Visits(document)[k].kind = "OperationDefinition"
     /\ document.definitions[Visits(document)[k].def].operation = "query"}

\* C14: validateOperation raises the operation-kind error exactly for an
\* operation that is not a query (a mutation or a subscription), and
\* validateDocument's operation count holds only the operations that passed
\* this check.
C14_OperationKindErrorIff ==
  /\ LastVisitIs("OperationDefinition") =>
       ((status = "threw" /\ error = OperationKindMessage)
          <=> document.definitions[LastVisit.def].operation # "query")
  /\ operationCount = Cardinality(QueriesVisited)

\* a subscription rejected after a query was counted
C14_Witness ==
  /\ LastVisitIs("OperationDefinition")
  /\ document.definitions[LastVisit.def].operation = "subscription"
  /\ status = "threw"
  /\ error = OperationKindMessage
  /\ operationCount = 1

\* C15: isFragmentUsedInRoot(F) raises the fragment-cycle error only when the
\* graph of fragments spread at each other's root has a cycle reachable from
\* F; in an acyclic document, shared fragments included, it returns a boolean.
C15_CycleErrorOnlyOnCycle ==
  (last.method = "isFragmentUsedInRoot" /\ last.threw) =>
    \E g \in ContainersFrom(document, {last.arg}) : OnRootSpreadCycle(document, g)

\* C16: a value returned by isFragmentUsedInRoot(F) is true exactly when a
\* chain of fragments, each spread at the root of the next, leads from F to
\* a spread at the root of an operation; it is false otherwise, also when F
\* is never spread.
C16_TrueIffRootChain ==
  (last.method = "isFragmentUsedInRoot" /\ ~last.threw) =>
    (last.value <=> last.arg \in RootFragments(document))

NumFragments(doc) == Cardinality(FragmentsOf(doc))

\* C17 (as claimed): isFragmentUsedInRoot(F) returns a boolean or raises the
\* fragment-cycle error, and the depth of its recursion never exceeds the
\* number of fragment definitions of the document.
C17_DepthAtMostFragments ==
  last.method = "isFragmentUsedInRoot" =>
    /\ last.threw => last.message[1] = CyclePrefix
    /\ last.depth <= NumFragments(document)

\* C17 (amended): isFragmentUsedInRoot(F) returns a boolean or raises the
\* fragment-cycle error; the depth of its recursion never exceeds the number
\* of fragment definitions when it returns, and exceeds it by at most one
\* (the invocation that meets the revisited fragment) when it raises.
C17_DepthAtMostFragmentsPlusOne ==
  last.method = "isFragmentUsedInRoot" =>
    /\ last.threw => (last.message[1] = CyclePrefix /\ last.depth >= 2)
    /\ ~last.threw => last.depth <= NumFragments(document)
    /\ last.depth <= NumFragments(document) + 1

\* a cycle through two fragments raised at the third invocation
C17_Witness ==
  /\ last.method = "isFragmentUsedInRoot"
  /\ last.threw
  /\ NumFragments(document) = 2
  /\ last.depth = 3

====
